---- MODULE Spec2Model ----
(***************************************************************************)
(* rlog.Writer: a buffered log writer with size/age triggered flushing and *)
(* size triggered rotation of "latest.log" into timestamped archives.      *)
(*                                                                         *)
(* The model holds the Writer's fields, the directory's files, and a clock.*)
(* Every file operation the code calls (Stat, Write, Sync, Close, Rename,  *)
(* OpenFile) may fail; a failing Write may have stored a prefix of the     *)
(* buffer.  One step of the model is one whole call of Write, Flush or     *)
(* Close, or the passage of one clock tick.                                *)
(***************************************************************************)
EXTENDS Integers, Sequences, FiniteSets, TLC

(* ---- bounds of the model ---------------------------------------------- *)
MaxCalls      == 3   \* calls of Write, Flush and Close per run
MaxPrior      == 1   \* bytes latest.log may hold from a prior session
MaxFaults     == 1   \* file operations that fail per run
SyncCalls     == 2   \* calls per run of the concurrent callers of every method
LoggerCalls   == 3   \* calls per run of the Logger's methods
OptMaxBufSize == 2   \* the argument of WithMaxBufSize
OptMaxFileSize == 2  \* the argument of WithMaxFileSize
OptMaxBufAge  == 2   \* the argument of WithMaxBufAge, in clock readings
TicksPerMicro == 2   \* clock readings per microsecond of the archive name
MaxPayload    == OptMaxBufSize  \* longest payload of one Write
MaxTime       == OptMaxBufAge   \* last clock reading

VARIABLES
    maxFileSize,  \* Writer.maxFileSize
    maxBufSize,   \* Writer.maxBufSize
    maxBufAge,    \* Writer.maxBufAge
    lastFlush,    \* Writer.lastFlush
    file,         \* Writer.file: "open", "closed" (non-nil, descriptor closed), "nil"
    buf,          \* Writer.buf
    exists,       \* latest.log exists in the directory
    active,       \* contents of latest.log
    archives,     \* archive name -> contents
    now,          \* the clock
    rotNames,     \* history: archive names produced by the renames, in order
    prior,        \* history: the bytes latest.log held when New opened it
    good,         \* history: prior, then the payloads of the Writes that returned nil
    all,          \* history: prior, then the payloads of all Writes
    onlyWrites,   \* history: no Flush or Close has been called yet
    gapsOK,       \* history: every Write came less than maxBufAge after the call before it
    nCalls,       \* history: number of calls so far
    nFaults,      \* history: number of calls given a failing file operation
    errSeen,      \* history: some call has returned an error
    closedOK,     \* history: some Close has returned nil
    last,         \* history: the last call and what it did
    mutex,        \* Writer.mutex (WithSync): "free" or the goroutine that holds it
    pc,           \* where each goroutine is in its call
    call,         \* each goroutine's call: op, payload, and the error it returned
    lockOrder,    \* history: prior, then the payloads in the order their Writes locked
    l,            \* the Logger: closeMu, closed, level, writer, and its loggers' outputs
    lpc,          \* where each goroutine is in its call of the Logger
    lcall,        \* each goroutine's call of the Logger, and the error it returned
    lhist         \* history: calls of the writer's Close, Closes returned

\* The variables of the synchronized Writer's callers.
syncVars == <<mutex, pc, call, lockOrder>>

\* The variables of the Logger and its callers.
loggerVars == <<l, lpc, lcall, lhist>>

vars == <<maxFileSize, maxBufSize, maxBufAge, lastFlush, file, buf, exists,
          active, archives, now, rotNames, prior, good, all, onlyWrites,
          gapsOK, nCalls, nFaults, errSeen, closedOK, last, mutex, pc, call,
          lockOrder, l, lpc, lcall, lhist>>

\* The goroutines that call a Writer made with WithSync.
Threads == {"g1", "g2"}

(* ---- values ----------------------------------------------------------- *)
\* Errors: "ok" is nil; "nilfile" is flush's `log file %q is closed`;
\* "ErrClosed" is os.ErrClosed from a call on a closed descriptor; "io" is any
\* other failure of a file operation.
ClosedErrs == {"nilfile", "ErrClosed"}

\* The file operation that fails during a call, if any.
Faults == {"none", "stat", "close", "rename", "open", "write", "sync", "fclose"}

\* The payload of a Write that is the n-th call, of length len: bytes that no other Write uses.
Payload(n, len) == [i \in 1..len |-> 10 * n + i]

\* The bytes left in latest.log by a prior session.
Prior(len) == [i \in 1..len |-> i]

\* time.Format("20060102-150405.000000"): the instant truncated to microseconds.
FormatTs(t) == t \div TicksPerMicro

Min(S) == CHOOSE x \in S : \A y \in S : x <= y

\* The archives' contents concatenated in the order of their names
\* (the names are timestamps, so this is chronological order).
RECURSIVE ConcatArchives(_, _)
ConcatArchives(arch, names) ==
    IF names = {} THEN <<>>
    ELSE LET m == Min(names)
         IN arch[m] \o ConcatArchives(arch, names \ {m})

\* Everything on disk: the archives in chronological order, then latest.log.
OnDisk == ConcatArchives(archives, DOMAIN archives) \o active

IsPrefix(a, b) == Len(a) <= Len(b) /\ SubSeq(b, 1, Len(a)) = a
IsSuffix(a, b) == Len(a) <= Len(b) /\ SubSeq(b, Len(b) - Len(a) + 1, Len(b)) = a

(* ---- the Writer's internal methods, on a record of the state ---------- *)
\* The Writer and the directory as one value; err is the call's result, and
\* io (file operations made), wrote (bytes written), flushed (flush() was
\* entered), rotated (the rename happened), rotCalls (calls of rotate()),
\* closing (Close reached file.Close()) and n (the count Write returns)
\* record what the call did.
Cur == [buf |-> buf, file |-> file, lastFlush |-> lastFlush,
        exists |-> exists, active |-> active, archives |-> archives,
        rotNames |-> rotNames,
        err |-> "ok", io |-> 0, wrote |-> 0, flushed |-> FALSE,
        rotated |-> FALSE, rotCalls |-> 0, closing |-> FALSE, n |-> 0]

\* rotate(): close the handle, rename latest.log to <timestamp>.log, reopen.
rotate(s, f, t) ==
    LET c == IF f = "close"
             THEN [s EXCEPT !.file = "closed", !.io = @ + 1, !.err = "io",
                            !.rotCalls = @ + 1]
             ELSE [s EXCEPT !.file = "nil", !.io = @ + 1, !.rotCalls = @ + 1]
        ts == FormatTs(t)
        r == IF f = "rename"
             THEN [c EXCEPT !.io = @ + 1, !.err = "io"]
             ELSE [c EXCEPT !.io = @ + 1,
                            !.archives = (ts :> c.active) @@ @,
                            !.exists = FALSE, !.active = <<>>,
                            !.rotated = TRUE,
                            !.rotNames = Append(@, ts)]
        o == IF f = "open"
             THEN [r EXCEPT !.io = @ + 1, !.err = "io"]
             ELSE [r EXCEPT !.io = @ + 1, !.file = "open", !.exists = TRUE]
    IN IF c.err # "ok" THEN c
       ELSE IF r.err # "ok" THEN r
       ELSE o

\* A write and sync that drops the buffer also when the sync fails.
writeSync_ClearOnSyncError(s, f, k, t) ==
    IF f = "write"
    THEN [s EXCEPT !.active = @ \o SubSeq(s.buf, 1, k), !.wrote = @ + k,
                   !.io = @ + 1, !.err = "io"]
    ELSE LET w == [s EXCEPT !.active = @ \o s.buf, !.wrote = @ + Len(s.buf),
                            !.io = @ + 1]
         IN IF f = "sync"
            THEN [w EXCEPT !.io = @ + 1, !.err = "io", !.buf = <<>>]
            ELSE [w EXCEPT !.io = @ + 1, !.buf = <<>>, !.lastFlush = t]

\* The write and sync of flush(), then the reset of the buffer.
writeSync(s, f, k, t) ==
    IF f = "write"
    THEN [s EXCEPT !.active = @ \o SubSeq(s.buf, 1, k), !.wrote = @ + k,
                   !.io = @ + 1, !.err = "io"]
    ELSE LET w == [s EXCEPT !.active = @ \o s.buf, !.wrote = @ + Len(s.buf),
                            !.io = @ + 1]
         IN IF f = "sync"
            THEN [w EXCEPT !.io = @ + 1, !.err = "io"]
            ELSE [w EXCEPT !.io = @ + 1, !.buf = <<>>, !.lastFlush = t]

\* A flush that writes the buffer to the file before it looks at the size:
\* the rotation then archives the bytes just written.
flush_WriteThenRotate(s, f, k, t) ==
    LET e == [s EXCEPT !.flushed = TRUE]
    IN IF e.file = "nil" THEN [e EXCEPT !.err = "nilfile"]
       ELSE IF Len(e.buf) = 0 THEN e
       ELSE IF e.file = "closed" THEN [e EXCEPT !.io = @ + 1, !.err = "ErrClosed"]
       ELSE IF f = "stat" THEN [e EXCEPT !.io = @ + 1, !.err = "io"]
       ELSE LET st == [e EXCEPT !.io = @ + 1]
                w == writeSync(st, f, k, t)
            IN IF w.err # "ok" THEN w
               ELSE IF Len(st.active) + Len(st.buf) >= maxFileSize
                    THEN rotate(w, f, t)
                    ELSE w

\* A flush that rotates an aged buffer's file whatever its size.
flush_RotateOnAge(s, f, k, t) ==
    LET e == [s EXCEPT !.flushed = TRUE]
    IN IF e.file = "nil" THEN [e EXCEPT !.err = "nilfile"]
       ELSE IF Len(e.buf) = 0 THEN e
       ELSE IF e.file = "closed" THEN [e EXCEPT !.io = @ + 1, !.err = "ErrClosed"]
       ELSE IF f = "stat" THEN [e EXCEPT !.io = @ + 1, !.err = "io"]
       ELSE LET st == [e EXCEPT !.io = @ + 1]
                r == IF \/ Len(st.active) + Len(st.buf) >= maxFileSize
                        \/ t - st.lastFlush >= maxBufAge
                     THEN rotate(st, f, t)
                     ELSE st
            IN IF r.err # "ok" THEN r ELSE writeSync(r, f, k, t)

\* flush(): f is the file operation that fails (if reached), k the number of
\* bytes a failing Write stores, t the clock.
flush(s, f, k, t) ==
    LET e == [s EXCEPT !.flushed = TRUE]
    IN IF e.file = "nil" THEN [e EXCEPT !.err = "nilfile"]
       ELSE IF Len(e.buf) = 0 THEN e
       ELSE IF e.file = "closed" THEN [e EXCEPT !.io = @ + 1, !.err = "ErrClosed"]
       ELSE IF f = "stat" THEN [e EXCEPT !.io = @ + 1, !.err = "io"]
       ELSE LET st == [e EXCEPT !.io = @ + 1]
                r == IF Len(st.active) + Len(st.buf) >= maxFileSize
                     THEN rotate(st, f, t)
                     ELSE st
            IN IF r.err # "ok" THEN r ELSE writeSync(r, f, k, t)

\* A flush condition that fires one byte early.
NeedFlush_OffByOne(s, t) ==
    Len(s.buf) + 1 >= maxBufSize \/ t - s.lastFlush >= maxBufAge

\* A flush condition that fires only when the buffer is older than maxBufAge.
NeedFlush_StrictAge(s, t) ==
    Len(s.buf) >= maxBufSize \/ t - s.lastFlush > maxBufAge

\* The flush condition of Write.
NeedFlush(s, t) == Len(s.buf) >= maxBufSize \/ t - s.lastFlush >= maxBufAge

\* file.Close() at the end of Close.
fileClose(s, f) ==
    LET c == [s EXCEPT !.closing = TRUE, !.io = @ + 1]
    IN IF c.file = "closed" THEN [c EXCEPT !.err = "ErrClosed"]
       ELSE IF f = "fclose" THEN [c EXCEPT !.file = "closed", !.err = "io"]
       ELSE [c EXCEPT !.file = "closed"]

\* A Write that, when its flush fails, returns the number of bytes stored.
doWrite_PartialCount(s, p, f, k, t) ==
    LET a == [s EXCEPT !.buf = @ \o p]
        r == IF NeedFlush(a, t) THEN flush(a, f, k, t) ELSE a
    IN IF r.err # "ok"
       THEN [r EXCEPT !.n = IF r.wrote < Len(p) THEN r.wrote ELSE Len(p)]
       ELSE [r EXCEPT !.n = Len(p)]

\* A Write that stores the payload in place of the buffer's bytes.
doWrite_ReplaceBuffer(s, p, f, k, t) ==
    LET a == [s EXCEPT !.buf = p]
        r == IF NeedFlush(a, t) THEN flush(a, f, k, t) ELSE a
    IN IF r.err # "ok" THEN [r EXCEPT !.n = 0] ELSE [r EXCEPT !.n = Len(p)]

\* Write(p), Flush() and Close() as functions of the state.
doWrite(s, p, f, k, t) ==
    LET a == [s EXCEPT !.buf = @ \o p]
        r == IF NeedFlush(a, t) THEN flush(a, f, k, t) ELSE a
    IN IF r.err # "ok" THEN [r EXCEPT !.n = 0] ELSE [r EXCEPT !.n = Len(p)]

doFlush(s, f, k, t) == flush(s, f, k, t)

doClose(s, f, k, t) ==
    LET r == flush(s, f, k, t)
    IN IF r.err # "ok" THEN r ELSE fileClose(r, f)

(* ---- the leveled Logger's values -------------------------------------- *)
\* The levels, and the four log.Loggers of a Logger with the level of each.
levelDebug == 0
levelInfo  == 1
levelWarn  == 2
levelError == 3
levelNone  == 4

Loggers == {"debug", "info", "warn", "error"}

LoggerLevel(lg) ==
    CASE lg = "debug" -> levelDebug
      [] lg = "info"  -> levelInfo
      [] lg = "warn"  -> levelWarn
      [] lg = "error" -> levelError

\* The level strings the callers of SetLevel pass, and strings.ToLower of them.
LevelArgs == {"error", "NONE", "bogus"}

ToLower(str) == IF str = "NONE" THEN "none" ELSE str

\* The switch of SetLevel: the level a string names, -1 for the default case.
ParseLevel(str) ==
    CASE str = "debug" -> levelDebug
      [] str = "info"  -> levelInfo
      [] str = "warn"  -> levelWarn
      [] str = "error" -> levelError
      [] str = "none"  -> levelNone
      [] OTHER         -> -1

\* The outputs SetLevel gives the four loggers: the writer for the loggers at
\* or above the level, io.Discard for the others.
SetOutputs(newLevel) ==
    [lg \in Loggers |-> IF LoggerLevel(lg) >= newLevel THEN "writer" ELSE "discard"]

\* The methods that log, one per logger used here: Debug() and Error().
LogMethods == {"debug", "error"}

\* logger.New(dirPath, "debug"): the state after its SetLevel.
NewLogger == [closeMu |-> "free", closed |-> 0, level |-> levelDebug,
              writer |-> "set", out |-> SetOutputs(levelDebug)]

\* A goroutine that has not called the Logger; after is whether the call
\* started when a Close had returned, touched whether it called the writer.
NoLoggerCall == [op |-> "none", arg |-> "", p |-> <<>>, err |-> "ok",
                 after |-> FALSE, touched |-> FALSE]

(* ---- the state machine ------------------------------------------------ *)
NoCall == [op |-> "New", err |-> "ok", n |-> 0, io |-> 0, wrote |-> 0,
           flushed |-> FALSE, rotated |-> FALSE, rotCalls |-> 0,
           closing |-> FALSE, p |-> <<>>,
           preErr |-> FALSE, preClosed |-> FALSE, preFile |-> "nil",
           preBuf |-> <<>>, preActive |-> <<>>, preLastFlush |-> 0,
           t |-> 0, prevOp |-> "New"]

\* New(dirPath, opts...): an existing directory, latest.log opened for append.
Init ==
    /\ maxFileSize = OptMaxFileSize
    /\ maxBufSize = OptMaxBufSize
    /\ maxBufAge = OptMaxBufAge
    /\ now = 0
    /\ lastFlush = 0
    /\ file = "open"
    /\ buf = <<>>
    /\ exists = TRUE
    /\ prior \in {Prior(n) : n \in 0..MaxPrior}
    /\ active = prior
    /\ good = prior
    /\ all = prior
    /\ onlyWrites = TRUE
    /\ gapsOK = TRUE
    /\ archives = <<>>
    /\ rotNames = <<>>
    /\ nCalls = 0
    /\ nFaults = 0
    /\ errSeen = FALSE
    /\ closedOK = FALSE
    /\ last = NoCall
    /\ mutex = "free"
    /\ pc = [t \in Threads |-> "idle"]
    /\ call = [t \in Threads |-> [op |-> "none", p |-> <<>>, err |-> "ok"]]
    /\ lockOrder = prior
    /\ l = NewLogger
    /\ lpc = [t \in Threads |-> "idle"]
    /\ lcall = [t \in Threads |-> NoLoggerCall]
    /\ lhist = [writerCloses |-> 0, closesDone |-> 0, closesNotErrClosed |-> 0]

\* The state after a call op(p) that ended in r.
Commit(op, p, r) ==
    /\ buf' = r.buf
    /\ file' = r.file
    /\ lastFlush' = r.lastFlush
    /\ exists' = r.exists
    /\ active' = r.active
    /\ archives' = r.archives
    /\ rotNames' = r.rotNames
    /\ errSeen' = (errSeen \/ r.err # "ok")
    /\ closedOK' = (closedOK \/ (op = "Close" /\ r.err = "ok"))
    /\ good' = IF op = "Write" /\ r.err = "ok" THEN good \o p ELSE good
    /\ all' = all \o p
    /\ onlyWrites' = (onlyWrites /\ op = "Write")
    /\ gapsOK' = (gapsOK /\ (op = "Write" => now - last.t < maxBufAge))
    /\ last' = [op |-> op, err |-> r.err,
                n |-> r.n, io |-> r.io, wrote |-> r.wrote,
                flushed |-> r.flushed, rotated |-> r.rotated,
                rotCalls |-> r.rotCalls, closing |-> r.closing, p |-> p,
                preErr |-> errSeen, preClosed |-> closedOK, preFile |-> file,
                preBuf |-> buf, preActive |-> active, preLastFlush |-> lastFlush,
                t |-> now, prevOp |-> last.op]
    /\ nFaults' = IF r.err = "io" THEN nFaults + 1 ELSE nFaults
    /\ nCalls' = nCalls + 1
    /\ UNCHANGED <<maxFileSize, maxBufSize, maxBufAge, now, prior>>
    /\ UNCHANGED syncVars
    /\ UNCHANGED loggerVars

\* The faults a call may meet: a failing file operation and, for a failing
\* Write, the number of bytes it stored (fewer than it was given).
FaultChoice(f, k, blen) ==
    /\ f # "none" => nFaults < MaxFaults
    /\ IF f = "write" THEN k < blen \/ (k = 0 /\ blen = 0) ELSE k = 0

Write ==
    /\ nCalls < MaxCalls
    /\ \E len \in 0..MaxPayload, f \in Faults, k \in 0..(MaxPayload * MaxCalls) :
         LET p == Payload(nCalls + 1, len)
         IN /\ FaultChoice(f, k, Len(buf) + len)
            /\ Commit("Write", p, doWrite(Cur, p, f, k, now))

Flush ==
    /\ nCalls < MaxCalls
    /\ \E f \in Faults, k \in 0..(MaxPayload * MaxCalls) :
         /\ FaultChoice(f, k, Len(buf))
         /\ Commit("Flush", <<>>, doFlush(Cur, f, k, now))

Close ==
    /\ nCalls < MaxCalls
    /\ \E f \in Faults, k \in 0..(MaxPayload * MaxCalls) :
         /\ FaultChoice(f, k, Len(buf))
         /\ Commit("Close", <<>>, doClose(Cur, f, k, now))

\* A clock tick of a Writer that flushes an aged buffer from a timer.
Tick_BackgroundFlush ==
    /\ now < MaxTime
    /\ now' = now + 1
    /\ LET r == IF now + 1 - lastFlush >= maxBufAge
                THEN flush(Cur, "none", 0, now + 1)
                ELSE Cur
       IN /\ buf' = r.buf
          /\ file' = r.file
          /\ lastFlush' = r.lastFlush
          /\ exists' = r.exists
          /\ active' = r.active
          /\ archives' = r.archives
          /\ rotNames' = r.rotNames
    /\ UNCHANGED <<maxFileSize, maxBufSize, maxBufAge, prior, good, all,
                   onlyWrites, gapsOK, nCalls, nFaults, errSeen, closedOK, last>>
    /\ UNCHANGED syncVars
    /\ UNCHANGED loggerVars

\* Time passes; the Writer has no goroutine or timer of its own.
Tick ==
    /\ now < MaxTime
    /\ now' = now + 1
    /\ UNCHANGED <<maxFileSize, maxBufSize, maxBufAge, lastFlush, file, buf,
                   exists, active, archives, rotNames, prior, good, all,
                   onlyWrites, gapsOK, nCalls, nFaults, errSeen, closedOK, last>>
    /\ UNCHANGED syncVars
    /\ UNCHANGED loggerVars

Next == Write \/ Flush \/ Close \/ Tick

Spec == Init /\ [][Next]_vars

(* ---- the synchronized Writer (WithSync) and its concurrent callers ----- *)
\* Each call is: w.mutex.Lock(), the body (for Write the append and the flush
\* condition, then flush; for Close flush, then file.Close()), and the
\* deferred w.mutex.Unlock().  A step of a goroutine is one of these.
Body == {"append", "flush", "fclose", "unlock"}

\* The history variables of the sequential calls, not kept here.
seqHist == <<good, gapsOK, errSeen, closedOK, last>>

\* The Writer's fields and the files after a step that ended in r.
Apply(r) ==
    /\ buf' = r.buf
    /\ file' = r.file
    /\ lastFlush' = r.lastFlush
    /\ exists' = r.exists
    /\ active' = r.active
    /\ archives' = r.archives
    /\ rotNames' = r.rotNames
    /\ nFaults' = IF r.err = "io" THEN nFaults + 1 ELSE nFaults

\* Nothing of the Writer or the files changes.
Keep == UNCHANGED <<lastFlush, file, buf, exists, active, archives, rotNames,
                    nFaults>>

\* A goroutine calls one of the methods ops, while fewer than max calls
\* have been made.
CallOf(t, ops, max) ==
    /\ pc[t] = "idle"
    /\ nCalls < max
    /\ \E op \in ops, len \in {0, 1, MaxPayload} :
         /\ op = "Write" <=> len > 0
         /\ call' = [call EXCEPT ![t] = [op |-> op, err |-> "ok",
                                         p |-> Payload(nCalls + 1, len)]]
         /\ onlyWrites' = (onlyWrites /\ op = "Write")
    /\ pc' = [pc EXCEPT ![t] = "lock"]
    /\ nCalls' = nCalls + 1
    /\ Keep
    /\ UNCHANGED <<maxFileSize, maxBufSize, maxBufAge, now, prior, all, mutex,
                   lockOrder>>
    /\ UNCHANGED seqHist
    /\ UNCHANGED loggerVars

\* A goroutine calls Write(p), Flush() or Close().
Call(t) == CallOf(t, {"Write", "Flush", "Close"}, SyncCalls)

\* A goroutine calls Write(p).
CallWrite(t) == CallOf(t, {"Write"}, MaxCalls)

\* A mutex that any goroutine can take at any time.
CanLock_Always(t) == TRUE

\* w.mutex.Lock() returns only when no goroutine holds the mutex.
CanLock(t) == mutex = "free"

\* w.mutex.Lock() at the start of Write, Flush and Close.
Lock(t) ==
    /\ pc[t] = "lock"
    /\ CanLock(t)
    /\ mutex' = t
    /\ pc' = [pc EXCEPT ![t] = IF call[t].op = "Write" THEN "append" ELSE "flush"]
    /\ lockOrder' = lockOrder \o call[t].p
    /\ Keep
    /\ UNCHANGED <<maxFileSize, maxBufSize, maxBufAge, now, prior, all, call,
                   onlyWrites, nCalls>>
    /\ UNCHANGED seqHist
    /\ UNCHANGED loggerVars

\* Write: w.buf = append(w.buf, p...) and the flush condition.
AppendStep(t) ==
    /\ pc[t] = "append"
    /\ buf' = buf \o call[t].p
    /\ all' = all \o call[t].p
    /\ pc' = [pc EXCEPT ![t] =
                IF NeedFlush([Cur EXCEPT !.buf = @ \o call[t].p], now)
                THEN "flush" ELSE "unlock"]
    /\ UNCHANGED <<lastFlush, file, exists, active, archives, rotNames, nFaults>>
    /\ UNCHANGED <<maxFileSize, maxBufSize, maxBufAge, now, prior, call, mutex,
                   lockOrder, onlyWrites, nCalls>>
    /\ UNCHANGED seqHist
    /\ UNCHANGED loggerVars

\* w.flush() in Write, Flush and Close, where the file operations in faults
\* may fail.
FlushStepOf(t, faults) ==
    /\ pc[t] = "flush"
    /\ \E f \in faults, k \in 0..(MaxPayload * MaxCalls) :
         /\ FaultChoice(f, k, Len(buf))
         /\ LET r == flush(Cur, f, k, now)
            IN /\ Apply(r)
               /\ call' = [call EXCEPT ![t].err = r.err]
               /\ pc' = [pc EXCEPT ![t] =
                           IF call[t].op = "Close" /\ r.err = "ok"
                           THEN "fclose" ELSE "unlock"]
    /\ UNCHANGED <<maxFileSize, maxBufSize, maxBufAge, now, prior, all, mutex,
                   lockOrder, onlyWrites, nCalls>>
    /\ UNCHANGED seqHist
    /\ UNCHANGED loggerVars

\* w.flush(), where any file operation may fail.
FlushStep(t) == FlushStepOf(t, Faults \ {"fclose"})

\* w.flush(), where no file operation fails.
FlushStepOK(t) == FlushStepOf(t, {"none"})

\* w.file.Close() at the end of Close.
FileCloseStep(t) ==
    /\ pc[t] = "fclose"
    /\ \E f \in {"none", "fclose"} :
         /\ FaultChoice(f, 0, Len(buf))
         /\ LET r == fileClose(Cur, f)
            IN /\ Apply(r)
               /\ call' = [call EXCEPT ![t].err = r.err]
    /\ pc' = [pc EXCEPT ![t] = "unlock"]
    /\ UNCHANGED <<maxFileSize, maxBufSize, maxBufAge, now, prior, all, mutex,
                   lockOrder, onlyWrites, nCalls>>
    /\ UNCHANGED seqHist
    /\ UNCHANGED loggerVars

\* A return that leaves the mutex locked when the call failed.
Unlock_SkipOnError(t) ==
    /\ pc[t] = "unlock"
    /\ mutex' = IF call[t].err = "ok" THEN "free" ELSE mutex
    /\ pc' = [pc EXCEPT ![t] = "idle"]
    /\ call' = [call EXCEPT ![t] = [op |-> "none", p |-> <<>>, err |-> call[t].err]]
    /\ Keep
    /\ UNCHANGED <<maxFileSize, maxBufSize, maxBufAge, now, prior, all,
                   lockOrder, onlyWrites, nCalls>>
    /\ UNCHANGED seqHist
    /\ UNCHANGED loggerVars

\* The deferred w.mutex.Unlock(), then the return (the goroutine keeps the
\* error it got).
Unlock(t) ==
    /\ pc[t] = "unlock"
    /\ mutex' = "free"
    /\ pc' = [pc EXCEPT ![t] = "idle"]
    /\ call' = [call EXCEPT ![t] = [op |-> "none", p |-> <<>>, err |-> call[t].err]]
    /\ Keep
    /\ UNCHANGED <<maxFileSize, maxBufSize, maxBufAge, now, prior, all,
                   lockOrder, onlyWrites, nCalls>>
    /\ UNCHANGED seqHist
    /\ UNCHANGED loggerVars

\* The steps of a goroutine inside a call.
Step(t) == Lock(t) \/ AppendStep(t) \/ FlushStep(t) \/ FileCloseStep(t) \/ Unlock(t)

SyncNext ==
    \/ \E t \in Threads : Call(t)
    \/ \E t \in Threads : Lock(t)
    \/ \E t \in Threads : AppendStep(t)
    \/ \E t \in Threads : FlushStep(t)
    \/ \E t \in Threads : FileCloseStep(t)
    \/ \E t \in Threads : Unlock(t)
    \/ Tick

SpecSync == Init /\ [][SyncNext]_vars

\* Concurrent calls of Write only, with no failing file operation.
SyncWritesNext ==
    \/ \E t \in Threads : CallWrite(t)
    \/ \E t \in Threads : Lock(t)
    \/ \E t \in Threads : AppendStep(t)
    \/ \E t \in Threads : FlushStepOK(t)
    \/ \E t \in Threads : Unlock(t)
    \/ Tick

SpecSyncWrites == Init /\ [][SyncWritesNext]_vars

(* ---- the leveled Logger and its concurrent callers --------------------- *)
\* Close, Flush and SetLevel each lock l.closeMu, test l.closed, act, and
\* unlock by defer; Debug() and Error() test l.closed and l.level without the
\* mutex and then write to their logger's output.  The writer is made with
\* WithSync, so each of its methods is one step.
LoggerFrame ==
    /\ UNCHANGED <<maxFileSize, maxBufSize, maxBufAge, now, prior, onlyWrites>>
    /\ UNCHANGED seqHist
    /\ UNCHANGED syncVars

\* A goroutine calls Close(), Flush(), SetLevel(arg), Debug(p) or Error(p).
LCall(t) ==
    /\ lpc[t] = "idle"
    /\ nCalls < LoggerCalls
    /\ \E op \in {"Close", "Flush", "SetLevel", "Log"},
          arg \in LevelArgs \cup LogMethods \cup {""} :
         /\ op = "SetLevel" => arg \in LevelArgs
         /\ op = "Log" => arg \in LogMethods
         /\ op \in {"Close", "Flush"} => arg = ""
         /\ lcall' = [lcall EXCEPT ![t] =
                         [op |-> op, arg |-> arg, err |-> "ok",
                          p |-> IF op = "Log" THEN Payload(nCalls + 1, 1) ELSE <<>>,
                          after |-> lhist.closesDone > 0, touched |-> FALSE]]
         /\ lpc' = [lpc EXCEPT ![t] = IF op = "Log" THEN "enabled" ELSE "llock"]
    /\ nCalls' = nCalls + 1
    /\ Keep
    /\ UNCHANGED <<l, lhist, all>>
    /\ LoggerFrame

\* The call of goroutine t when it has returned: its operation and result.
Returned(t) == [lcall[t] EXCEPT !.arg = "", !.p = <<>>]

\* l.closeMu.Lock().
LLock(t) ==
    /\ lpc[t] = "llock"
    /\ l.closeMu = "free"
    /\ l' = [l EXCEPT !.closeMu = t]
    /\ lpc' = [lpc EXCEPT ![t] = "check"]
    /\ Keep
    /\ UNCHANGED <<lcall, lhist, all, nCalls>>
    /\ LoggerFrame

\* A test of l.closed that never finds the Logger closed.
LCheck_NeverClosed(t) ==
    /\ lpc[t] = "check"
    /\ lpc' = [lpc EXCEPT ![t] =
                  CASE lcall[t].op = "Close" -> "store"
                    [] lcall[t].op = "Flush" -> "wflush"
                    [] OTHER -> "setlevel"]
    /\ Keep
    /\ UNCHANGED <<l, lcall, lhist, all, nCalls>>
    /\ LoggerFrame

\* if l.IsClosed() { return ErrClosed }.
LCheck(t) ==
    /\ lpc[t] = "check"
    /\ IF l.closed = 1
       THEN /\ lcall' = [lcall EXCEPT ![t].err = "logger.ErrClosed"]
            /\ lpc' = [lpc EXCEPT ![t] = "lunlock"]
       ELSE /\ lcall' = lcall
            /\ lpc' = [lpc EXCEPT ![t] =
                          CASE lcall[t].op = "Close" -> "store"
                            [] lcall[t].op = "Flush" -> "wflush"
                            [] OTHER -> "setlevel"]
    /\ Keep
    /\ UNCHANGED <<l, lhist, all, nCalls>>
    /\ LoggerFrame

\* Close: l.closed.Store(1) and the four SetOutput(io.Discard).
LStore(t) ==
    /\ lpc[t] = "store"
    /\ l' = [l EXCEPT !.closed = 1, !.out = [lg \in Loggers |-> "discard"]]
    /\ lpc' = [lpc EXCEPT ![t] = "wclose"]
    /\ Keep
    /\ UNCHANGED <<lcall, lhist, all, nCalls>>
    /\ LoggerFrame

\* Close: if l.writer != nil { err := l.writer.Close(); l.writer = nil }.
LWriterClose(t) ==
    /\ lpc[t] = "wclose"
    /\ IF l.writer # "nil"
       THEN \E f \in Faults, k \in 0..(MaxPayload * MaxCalls) :
              /\ FaultChoice(f, k, Len(buf))
              /\ LET r == doClose(Cur, f, k, now)
                 IN /\ Apply(r)
                    /\ lcall' = [lcall EXCEPT
                                   ![t].err = IF r.err # "ok" THEN "writer" ELSE "ok",
                                   ![t].touched = TRUE]
              /\ l' = [l EXCEPT !.writer = "nil"]
              /\ lhist' = [lhist EXCEPT !.writerCloses = @ + 1]
       ELSE /\ Keep
            /\ UNCHANGED <<l, lcall, lhist>>
    /\ lpc' = [lpc EXCEPT ![t] = "lunlock"]
    /\ UNCHANGED <<all, nCalls>>
    /\ LoggerFrame

\* Flush: l.writer.Flush().
LWriterFlush(t) ==
    /\ lpc[t] = "wflush"
    /\ \E f \in Faults \ {"fclose"}, k \in 0..(MaxPayload * MaxCalls) :
         /\ FaultChoice(f, k, Len(buf))
         /\ LET r == doFlush(Cur, f, k, now)
            IN /\ Apply(r)
               /\ lcall' = [lcall EXCEPT
                              ![t].err = IF r.err # "ok" THEN "writer" ELSE "ok",
                              ![t].touched = TRUE]
    /\ lpc' = [lpc EXCEPT ![t] = "lunlock"]
    /\ UNCHANGED <<l, lhist, all, nCalls>>
    /\ LoggerFrame

\* SetLevel: the switch on strings.ToLower(level), the SetOutputs of its
\* case and l.level.Store(newLevel), or the error of the default case.
LSetLevel(t) ==
    /\ lpc[t] = "setlevel"
    /\ LET newLevel == ParseLevel(ToLower(lcall[t].arg))
       IN IF newLevel < 0
          THEN /\ lcall' = [lcall EXCEPT ![t].err = "ErrInvalidLogLevel"]
               /\ l' = l
          ELSE /\ l' = [l EXCEPT !.level = newLevel, !.out = SetOutputs(newLevel)]
               /\ lcall' = [lcall EXCEPT ![t].touched = newLevel < levelNone]
    /\ lpc' = [lpc EXCEPT ![t] = "lunlock"]
    /\ Keep
    /\ UNCHANGED <<lhist, all, nCalls>>
    /\ LoggerFrame

\* The deferred l.closeMu.Unlock(), then the return.
LUnlock(t) ==
    /\ lpc[t] = "lunlock"
    /\ l' = [l EXCEPT !.closeMu = "free"]
    /\ lpc' = [lpc EXCEPT ![t] = "idle"]
    /\ lhist' = IF lcall[t].op = "Close"
                THEN [lhist EXCEPT
                        !.closesDone = @ + 1,
                        !.closesNotErrClosed =
                            IF lcall[t].err # "logger.ErrClosed" THEN @ + 1 ELSE @]
                ELSE lhist
    /\ lcall' = [lcall EXCEPT ![t] = Returned(t)]
    /\ Keep
    /\ UNCHANGED <<all, nCalls>>
    /\ LoggerFrame

\* Debug() and Error(): isLevelEnabled.
LogEnabled(t) ==
    /\ lpc[t] = "enabled"
    /\ IF l.closed = 0 /\ l.level <= LoggerLevel(lcall[t].arg)
       THEN /\ lpc' = [lpc EXCEPT ![t] = "output"]
            /\ lcall' = lcall
       ELSE /\ lpc' = [lpc EXCEPT ![t] = "idle"]
            /\ lcall' = [lcall EXCEPT ![t] = Returned(t)]
    /\ Keep
    /\ UNCHANGED <<l, lhist, all, nCalls>>
    /\ LoggerFrame

\* Debug() and Error(): Output() writes the entry to the logger's output,
\* the writer's Write or io.Discard; an error is printed, not returned.
LogOutput(t) ==
    /\ lpc[t] = "output"
    /\ IF l.out[lcall[t].arg] = "writer"
       THEN \E f \in Faults \ {"fclose"}, k \in 0..(MaxPayload * MaxCalls) :
              /\ FaultChoice(f, k, Len(buf) + Len(lcall[t].p))
              /\ Apply(doWrite(Cur, lcall[t].p, f, k, now))
              /\ all' = all \o lcall[t].p
              /\ lcall' = [lcall EXCEPT ![t] = [Returned(t) EXCEPT !.touched = TRUE]]
       ELSE /\ Keep
            /\ all' = all
            /\ lcall' = [lcall EXCEPT ![t] = Returned(t)]
    /\ lpc' = [lpc EXCEPT ![t] = "idle"]
    /\ UNCHANGED <<l, lhist, nCalls>>
    /\ LoggerFrame

LoggerNext ==
    \/ \E t \in Threads : LCall(t)
    \/ \E t \in Threads : LLock(t)
    \/ \E t \in Threads : LCheck(t)
    \/ \E t \in Threads : LStore(t)
    \/ \E t \in Threads : LWriterClose(t)
    \/ \E t \in Threads : LWriterFlush(t)
    \/ \E t \in Threads : LSetLevel(t)
    \/ \E t \in Threads : LUnlock(t)
    \/ \E t \in Threads : LogEnabled(t)
    \/ \E t \in Threads : LogOutput(t)
    \/ Tick

SpecLogger == Init /\ [][LoggerNext]_vars

(* ---- the claims ------------------------------------------------------- *)
\* The bytes passed to Write so far.
Cumulative == Len(all) - Len(prior)

\* C1: round trip.  When a Close has returned nil, the archives in
\* chronological order followed by latest.log hold exactly the bytes of the
\* prior session and then, in call order, the payloads of the Writes that
\* returned nil.
C1_RoundTrip ==
    (last.op = "Close" /\ last.err = "ok") => OnDisk = good

\* C2: error latching.  A call made after some call has returned an error
\* returns an error and performs no file operation.
C2_ErrorLatched ==
    last.preErr => (last.err # "ok" /\ last.io = 0)

\* C3: a call made after a Close has returned nil fails with a closed-writer
\* error.
C3_FailsAfterClose ==
    last.preClosed => last.err \in ClosedErrs

\* C4: a Close that directly follows a Close returns a closed-writer error and
\* writes no bytes to any file.
C4_SecondClose ==
    (last.op = "Close" /\ last.prevOp = "Close")
        => (last.err \in ClosedErrs /\ last.wrote = 0)

\* C5: after any Close has returned, the file handle is no longer open.
C5_CloseReleasesHandle ==
    last.op = "Close" => file # "open"

\* C6, as stated: while only Writes have been called, their cumulative bytes
\* are below maxBufSize and each came less than maxBufAge after the call
\* before it, nothing has reached the directory.
C6_NoFlushWithinGaps ==
    (onlyWrites /\ Cumulative < maxBufSize /\ gapsOK)
        => (OnDisk = prior /\ last.wrote = 0)

\* C6, amended: while only Writes have been called, their cumulative bytes are
\* below maxBufSize and each came less than maxBufAge after New, nothing has
\* reached the directory.
C6_NoFlushWithinAge ==
    (onlyWrites /\ Cumulative < maxBufSize /\ last.t < maxBufAge)
        => (OnDisk = prior /\ last.wrote = 0 /\ buf = SubSeq(all, Len(prior) + 1, Len(all)))

C6_Witness ==
    /\ onlyWrites /\ Cumulative < maxBufSize /\ last.t < maxBufAge
    /\ nCalls >= 2 /\ buf # <<>> /\ last.t > 0

\* The flush condition of Write, from the state before the call.
C7_Condition ==
    \/ Len(last.preBuf \o last.p) >= maxBufSize
    \/ last.t - last.preLastFlush >= maxBufAge

C8_NoIdleFlush ==
    [][nCalls' = nCalls =>
          /\ buf' = buf /\ active' = active /\ archives' = archives
          /\ exists' = exists /\ file' = file /\ lastFlush' = lastFlush]_vars

\* A non-empty buffer of age maxBufAge or more, with time passed since the
\* last call.
C8_Witness ==
    buf # <<>> /\ now - lastFlush >= maxBufAge /\ now > last.t

\* C9: after a call whose flush rotated, the archive named by the time of the
\* call holds what latest.log held before the call, latest.log holds nothing
\* but buffer bytes from its start, and all of them when the call succeeded.
C9_RotateBeforeWrite ==
    last.rotated =>
        /\ FormatTs(last.t) \in DOMAIN archives
        /\ archives[FormatTs(last.t)] = last.preActive
        /\ IsPrefix(active, last.preBuf \o last.p)
        /\ last.err = "ok" => active = last.preBuf \o last.p

\* A successful rotating Write over the bytes of a prior session.
C9_Witness ==
    /\ last.rotated /\ last.err = "ok" /\ last.op = "Write"
    /\ last.preActive = prior /\ prior # <<>>

\* C10: the archive names produced by the rotations are pairwise distinct.
C10_DistinctNames ==
    \A i, j \in 1..Len(rotNames) : i # j => rotNames[i] # rotNames[j]

\* C12: in a directory that was empty at New, neither latest.log nor any
\* archive ever holds more than maxFileSize bytes.
C12_MaxFileSize ==
    prior = <<>> =>
        /\ Len(active) <= maxFileSize
        /\ \A a \in DOMAIN archives : Len(archives[a]) <= maxFileSize

C14_Pending == last.preBuf \o last.p
C14_SizeReached ==
    /\ C14_Pending # <<>>
    /\ Len(last.preActive) + Len(C14_Pending) >= maxFileSize

\* The flush of the last call failed at file.Stat().
C14_StatFailed == last.err = "io" /\ last.io = 1 /\ ~last.closing

\* C14, as stated: a flush calls rotate exactly when the buffer is non-empty
\* and the file's size plus the buffer's length is maxFileSize or more, and
\* at most once.
C14_RotateIffSize ==
    /\ last.rotCalls <= 1
    /\ last.rotCalls = 1 <=> (last.flushed /\ C14_SizeReached)

\* C14, amended: as stated, for a flush that reaches the size test (the
\* handle is open and file.Stat() succeeds); a flush that fails before it
\* does not rotate.
C14_RotateIffSizeKnown ==
    /\ last.rotCalls <= 1
    /\ last.rotCalls = 1 <=>
          /\ last.flushed /\ C14_SizeReached
          /\ last.preFile = "open" /\ ~C14_StatFailed

\* A successful flush of an aged buffer that did not rotate.
C14_Witness ==
    /\ last.flushed /\ last.err = "ok" /\ C14_Pending # <<>>
    /\ last.t - last.preLastFlush >= maxBufAge
    /\ last.rotCalls = 0 /\ last.wrote > 0

\* C15: when the flush of a call fails, the buffer (with the payload just
\* appended) and lastFlush are what they were when the flush began.
C15_FailedFlushKeepsData ==
    (last.err # "ok" /\ ~last.closing) =>
        /\ last.flushed
        /\ buf = last.preBuf \o last.p
        /\ lastFlush = last.preLastFlush

\* A flush that failed after it had stored bytes of a Write's payload.
C15_Witness ==
    /\ last.err = "io" /\ ~last.closing
    /\ last.wrote > 0 /\ last.p # <<>>

\* C16: a call made after a rotation's rename has failed (the handle is nil
\* and latest.log is still there) returns an error and writes no bytes.
C16_AfterRenameFailure ==
    (last.op # "New" /\ last.preFile = "nil" /\ exists)
        => (last.err # "ok" /\ last.wrote = 0)

\* C17: there are as many archive files as rotations that renamed.
C17_OneArchivePerRotation ==
    Cardinality(DOMAIN archives) = Len(rotNames)

\* C18: a Write made after some call has returned an error returns an error
\* and leaves the buffer as it was.
C18_NoAppendAfterError ==
    (last.op = "Write" /\ last.preErr)
        => (last.err # "ok" /\ buf = last.preBuf)

\* C11: with WithSync at most one goroutine is between its Lock() and its
\* Unlock(), and it holds the mutex for as long as it is.
C11_MutualExclusion ==
    /\ Cardinality({t \in Threads : pc[t] \in Body}) <= 1
    /\ \A t \in Threads : pc[t] \in Body => mutex = t

\* One goroutine is inside Write, Flush or Close while another waits in Lock().
C11_Witness ==
    \E t, u \in Threads :
        /\ t # u
        /\ pc[t] \in {"append", "flush", "fclose"}
        /\ pc[u] = "lock"

\* C19: the mutex is free whenever no goroutine is inside a call's body,
\* whatever the calls returned; a goroutine waiting in Lock() never holds the
\* mutex itself; and every goroutine inside a call can take its next step, or
\* waits in Lock() for a goroutine that can (a call has at most five steps,
\* so every call returns).
C19_LockReleased ==
    /\ (\A t \in Threads : pc[t] \notin Body) => mutex = "free"
    /\ \A t \in Threads : pc[t] = "lock" => mutex # t
    /\ \A t \in Threads : mutex = t => pc[t] \in Body
    /\ \A t \in Threads :
          pc[t] # "idle" =>
              \/ ENABLED Step(t)
              \/ \E u \in Threads \ {t} : mutex = u /\ ENABLED Step(u)

\* Every call has returned, one of them with the error of a file operation.
C19_Witness ==
    /\ \A t \in Threads : pc[t] = "idle"
    /\ nCalls = SyncCalls
    /\ \E t \in Threads : call[t].err = "io"
    /\ mutex = "free"

\* The bytes of q that come from payloads (the prior session's do not).
PayloadBytes(q) == SelectSeq(q, LAMBDA b : b > 10)

\* The payload of the Write that holds the mutex and has not appended yet.
C20_Pending ==
    IF \E t \in Threads : pc[t] = "append"
    THEN call[CHOOSE t \in Threads : pc[t] = "append"].p
    ELSE <<>>

\* C20: with concurrent Writes and no failing file operation, the archives,
\* latest.log and the buffer hold, in this order, the payloads of the Writes
\* that have appended, each once and whole, in the order the Writes locked.
C20_PayloadsInLockOrder ==
    /\ lockOrder = all \o C20_Pending
    /\ PayloadBytes(OnDisk \o buf) = PayloadBytes(all)

\* The archives' contents in the order the rotations made them.
RECURSIVE C21_Chronological(_)
C21_Chronological(i) ==
    IF i = 0 THEN <<>>
    ELSE C21_Chronological(i - 1) \o archives[rotNames[i]]

\* No file operation has failed, no call was made after a Close returned, and
\* the rotations' timestamps are pairwise distinct.
C21_Premise ==
    /\ nFaults = 0 /\ ~errSeen
    /\ ~last.preClosed
    /\ C10_DistinctNames

\* C21: conservation.  With no failing file operation and pairwise distinct
\* rotation timestamps, after every call up to and including Close the
\* archives in chronological order, then latest.log, then the buffer hold
\* the bytes of the prior session and then every payload passed to Write, in
\* call order.
C21_Conservation ==
    C21_Premise =>
        /\ C21_Chronological(Len(rotNames)) \o active \o buf = all
        /\ OnDisk \o buf = all

\* Two rotations at different timestamps over a prior session's bytes, and
\* bytes still in the buffer.
C21_Witness ==
    /\ C21_Premise
    /\ Len(rotNames) = 2 /\ prior # <<>>
    /\ active # <<>> /\ buf # <<>>

\* A Close that returned nil after a rotation.
C21_WitnessClose ==
    /\ C21_Premise /\ last.op = "Close" /\ last.err = "ok" /\ rotNames # <<>>

\* The calls of Close, Flush and SetLevel that started after a Close returned.
C22_After ==
    {t \in Threads : lcall[t].after /\ lcall[t].op \in {"Close", "Flush", "SetLevel"}}

\* C22: under every interleaving of Close, Flush and SetLevel (and of the
\* logging methods), the writer's Close is called at most once, at most one
\* Close returns something other than ErrClosed, and a Close, Flush or
\* SetLevel that starts after a Close has returned goes from the test of
\* l.closed to its return, returns ErrClosed and never calls the writer.
C22_SingleShutdown ==
    /\ lhist.writerCloses <= 1
    /\ lhist.closesNotErrClosed <= 1
    /\ \A t \in C22_After :
          /\ ~lcall[t].touched
          /\ lpc[t] \in {"llock", "check", "lunlock", "idle"}
          /\ lpc[t] \in {"lunlock", "idle"} => lcall[t].err = "logger.ErrClosed"

\* Two Closes have returned, one of them with ErrClosed, the writer's Close
\* was called, and a Flush or SetLevel that started after a Close has returned.
C22_Witness ==
    /\ lhist.closesDone = 2 /\ lhist.closesNotErrClosed = 1
    /\ lhist.writerCloses = 1
    /\ \E t \in C22_After : lpc[t] = "idle" /\ lcall[t].op # "Close"

====
